---- MODULE Spec2Model ----
(***************************************************************************)
(* AlertReceiveChannelStore (grafana-plugin/src/models/                    *)
(* alert_receive_channel/alert_receive_channel.ts) together with the REST  *)
(* server it mirrors, and CommonIntegrationHelper.                         *)
(*                                                                         *)
(* The browser runs one handler at a time: a store method runs without     *)
(* interruption up to its first await, and the code after an await runs    *)
(* as one continuation when the response arrives.  Inside a continuation   *)
(* every runInAction block is one MobX transaction: reactions (observers)  *)
(* run when the block ends, so the state after each block is a state an    *)
(* observer sees.  The model takes one step per block and keeps the        *)
(* continuation's position in run; while run is busy no other handler of   *)
(* the client starts.  The server handles requests concurrently.           *)
(***************************************************************************)
EXTENDS Integers, Sequences, FiniteSets, Bags, TLC

\* Bound: store calls that exist at the same time (in flight or rejected).
MaxCalls == 2

\* Bound: the longest list of routes a view renders.
MaxRoutes == 3

\* Bound: the most labels a route has.
MaxLabels == 2

\* Bound: the pages fetchPaginatedItems asks for are 1..MaxPage.
MaxPage == 2

\* The server's page size for /alert_receive_channels/.
PageSize == 1

Integrations == {"c1", "c2"}
\* The order in which the server lists the integrations.
IntegrationList == <<"c1", "c2">>
\* The id of the heartbeat of integration c, when it has one.
HeartbeatOf(c) == IF c = "c1" THEN "h1" ELSE "h2"
\* searchResult before the first fetchItems: the field has no initializer.
Undefined == <<"undefined">>
Filters == {"f1", "f2", "f3"}

\* ChannelFilter.alert_receive_channel: the integration a filter belongs to.
ChanOf(f) == IF f = "f3" THEN "c2" ELSE "c1"

VARIABLES
    \* ---- the store (alert_receive_channel.ts:23-41) ----
    channelFilterIds,      \* integration id -> ordered list of filter ids
    channelFilters,        \* filter id -> ChannelFilter
    items,                 \* integration id -> AlertReceiveChannel
    searchResult,          \* ids of the last fetchItems response
    paginatedSearchResult, \* {count, results, page_size} of the last page
    counters,              \* the last counters response
    alertReceiveChannelToHeartbeat,  \* integration id -> heartbeat id
    heartbeatItems,        \* rootStore.heartbeatStore.items
    \* ---- the server ----
    srvFilterIds,          \* integration id -> the server's ordered filter ids
    srvHeartbeat,          \* integration id -> id of its heartbeat, or "null"
    \* ---- the event loop and the network ----
    calls,                 \* bag of store calls: request or response in flight
    run,                   \* the continuation the client is executing
    returned,              \* what the last settled fetch of integrations returned
    \* ---- the view ----
    route,                 \* the last route row rendered with its wording
    latestPage,            \* the query and page the list view asked for last
    \* ---- the user settings ----
    userStore,             \* userStore.items and userStore.currentUserPk
    googleConnector        \* what GoogleConnector rendered, and the calls it made

filterVars == <<channelFilterIds, channelFilters, srvFilterIds>>
itemVars == <<items, searchResult, paginatedSearchResult, counters,
              alertReceiveChannelToHeartbeat, heartbeatItems, srvHeartbeat, returned>>
userVars == <<userStore, googleConnector>>
vars == <<filterVars, itemVars, calls, run, route, latestPage, userVars>>

----------------------------------------------------------------------------
\* Helpers for JavaScript objects and arrays.

\* { ...a, ...b }: the keys of both, b's value where both have the key.
Spread(a, b) ==
    [k \in (DOMAIN a) \cup (DOMAIN b) |-> IF k \in DOMAIN b THEN b[k] ELSE a[k]]

\* {}: the empty object.
EmptyObject == [k \in {} |-> k]

\* { [key]: value }
Single(key, value) == [k \in {key} |-> value]

Range(s) == {s[i] : i \in DOMAIN s}

\* Array.prototype.indexOf, 0-based, -1 when absent.
IndexOf(arr, x) ==
    IF x \in Range(arr)
    THEN (CHOOSE i \in DOMAIN arr : arr[i] = x /\ \A j \in 1..(i-1) : arr[j] # x) - 1
    ELSE -1

\* arr without the element at 1-based position p.
RemoveAt(arr, p) == [i \in 1..(Len(arr)-1) |-> IF i < p THEN arr[i] ELSE arr[i+1]]

\* arr with x inserted so that it stands at 1-based position p.
InsertAt(arr, p, x) ==
    [i \in 1..(Len(arr)+1) |-> IF i < p THEN arr[i] ELSE IF i = p THEN x ELSE arr[i-1]]

\* Array.prototype.splice(start, 1): a negative start counts from the end
\* (clamped at 0), a start beyond the end removes nothing.
Splice1(arr, start) ==
    LET s == IF start < 0
             THEN (IF Len(arr) + start < 0 THEN 0 ELSE Len(arr) + start)
             ELSE start
    IN IF s < Len(arr) THEN RemoveAt(arr, s + 1) ELSE arr

\* move(array, oldIndex, newIndex) of state/helpers: the element at oldIndex
\* is taken out and put back at newIndex (0-based).
Move(arr, oldIndex, newIndex) ==
    InsertAt(RemoveAt(arr, oldIndex + 1), newIndex + 1, arr[oldIndex + 1])

----------------------------------------------------------------------------
\* The server.

\* The ChannelFilter the server returns for f (its id and its integration;
\* the other fields of a filter play no part in the store's bookkeeping).
SrvFilter(f) == [id |-> f, alert_receive_channel |-> ChanOf(f)]

SrvHasFilter(f) == f \in Range(srvFilterIds[ChanOf(f)])

\* GET /channel_filters/?alert_receive_channel=c: c's filters in order.
SrvListFilters(c) == [i \in 1..Len(srvFilterIds[c]) |-> SrvFilter(srvFilterIds[c][i])]

\* One copy of call r is replaced by r2.
Replace(r, r2) == (calls (-) SetToBag({r})) (+) SetToBag({r2})

Idle == [step |-> 0]

\* The item fields of the store after construction (lines 23-41), next to a
\* server on which c1 has a heartbeat and c2 has none.
InitItems ==
    /\ items = EmptyObject
    /\ searchResult = Undefined
    /\ paginatedSearchResult = EmptyObject
    /\ counters = EmptyObject
    /\ alertReceiveChannelToHeartbeat = EmptyObject
    /\ heartbeatItems = EmptyObject
    /\ srvHeartbeat = [c \in Integrations |-> IF c = "c1" THEN HeartbeatOf(c) ELSE "null"]
    /\ returned = [op |-> "none", value |-> Undefined]
    /\ route = [rendered |-> FALSE]
    /\ latestPage = [issued |-> FALSE]

\* The users the user store holds.
Users == {"u1", "u2", "u3"}

\* GoogleConnector is not rendered.
Unmounted == [mounted |-> FALSE, id |-> "none", buttons |-> {},
              confirm |-> FALSE, called |-> "none"]

\* The user store of a session in which no user has connected Google.
InitUser ==
    /\ userStore = [items |-> [u \in Users |-> [has_google_oauth2_connected |-> FALSE]],
                    currentUserPk |-> "u1"]
    /\ googleConnector = Unmounted

InitChannelStore ==
    /\ InitItems
    /\ channelFilterIds = EmptyObject
    /\ channelFilters = EmptyObject
    /\ srvFilterIds = [c \in Integrations |-> IF c = "c1" THEN <<"f1", "f2">> ELSE <<"f3">>]
    /\ calls = EmptyBag
    /\ run = Idle

Init ==
    /\ InitChannelStore
    /\ InitUser

----------------------------------------------------------------------------
\* Requests of the channel-filter operations (the part of each method up to
\* its first await).  A client handler starts only when no continuation runs.

ClientFree == run = Idle /\ BagCardinality(calls) < MaxCalls

\* The request record of fetchChannelFilters(c, isOverwrite); via names the
\* method that called it, f the filter that method was about.
FetchChannelFiltersRequest(c, isOverwrite, via, f) ==
    [op |-> "fetchChannelFilters", c |-> c, ow |-> isOverwrite, via |-> via, f |-> f,
     pc |-> "req", data |-> <<>>]

\* fetchChannelFilters(alertReceiveChannelId, isOverwrite), lines 214-217.
FetchChannelFilters(c, isOverwrite) ==
    /\ ClientFree
    /\ calls' = calls (+) SetToBag({FetchChannelFiltersRequest(c, isOverwrite, "direct", "-")})
    /\ UNCHANGED <<filterVars, run>>
    /\ UNCHANGED <<itemVars, route, latestPage, userVars>>

\* saveChannelFilter(channelFilterId, data), lines 251-255.
SaveChannelFilter(f) ==
    /\ ClientFree
    /\ calls' = calls (+) SetToBag({[op |-> "saveChannelFilter", f |-> f,
                                     pc |-> "req", data |-> <<>>]})
    /\ UNCHANGED <<filterVars, run>>
    /\ UNCHANGED <<itemVars, route, latestPage, userVars>>

\* The local reorder of moveChannelFilterToPosition, lines 274-278.
MoveLocally(c, oldIndex, newIndex) ==
    [channelFilterIds EXCEPT ![c] = Move(channelFilterIds[c], oldIndex, newIndex)]

\* Mutant of MovedFilterId: the id is read after the list was reordered.
MovedFilterIdAfterReorder(c, oldIndex, newIndex) ==
    MoveLocally(c, oldIndex, newIndex)[c][oldIndex + 1]

\* The id moveChannelFilterToPosition sends, line 272.
MovedFilterId(c, oldIndex, newIndex) == channelFilterIds[c][oldIndex + 1]

\* moveChannelFilterToPosition(c, oldIndex, newIndex), lines 267-280: the id
\* is read, the list reordered and the request sent in one synchronous run.
\* The indexes are those of rows the view shows; with channelFilterIds[c]
\* undefined line 272 throws and nothing changes.
MoveChannelFilterToPosition(c, oldIndex, newIndex) ==
    /\ ClientFree
    /\ c \in DOMAIN channelFilterIds
    /\ oldIndex \in 0..(Len(channelFilterIds[c]) - 1)
    /\ newIndex \in 0..(Len(channelFilterIds[c]) - 1)
    /\ channelFilterIds' = MoveLocally(c, oldIndex, newIndex)
    /\ calls' = calls (+) SetToBag({[op |-> "moveChannelFilterToPosition", c |-> c,
                                     oldIndex |-> oldIndex, newIndex |-> newIndex,
                                     f |-> MovedFilterId(c, oldIndex, newIndex),
                                     pc |-> "req", data |-> <<>>]})
    /\ UNCHANGED <<channelFilters, srvFilterIds, run>>
    /\ UNCHANGED <<itemVars, route, latestPage, userVars>>

\* The optimistic removal of deleteChannelFilter, lines 288-291.
RemoveLocally(c, f) ==
    [channelFilterIds EXCEPT ![c] = Splice1(channelFilterIds[c], IndexOf(channelFilterIds[c], f))]

\* deleteChannelFilter(channelFilterId), lines 285-295.  With f not a key of
\* channelFilters, or its integration not a key of channelFilterIds, line 288
\* throws and nothing changes.
DeleteChannelFilter(f) ==
    /\ ClientFree
    /\ f \in DOMAIN channelFilters
    /\ LET c == channelFilters[f].alert_receive_channel IN
        /\ c \in DOMAIN channelFilterIds
        /\ channelFilterIds' = RemoveLocally(c, f)
        /\ calls' = calls (+) SetToBag({[op |-> "deleteChannelFilter", c |-> c, f |-> f,
                                         pc |-> "req", data |-> <<>>]})
    /\ UNCHANGED <<channelFilters, srvFilterIds, run>>
    /\ UNCHANGED <<itemVars, route, latestPage, userVars>>

----------------------------------------------------------------------------
\* The server answers a request: the call goes from "req" to "ok" (with the
\* response body in data) or to "fail".

Answer(r, data) == Replace(r, [r EXCEPT !.pc = "ok", !.data = data])
Refuse(r) == Replace(r, [r EXCEPT !.pc = "fail"])

\* GET /channel_filters/?alert_receive_channel=c
SrvGetChannelFilters(r) ==
    /\ r.op = "fetchChannelFilters" /\ r.pc = "req"
    /\ calls' = Answer(r, SrvListFilters(r.c))
    /\ UNCHANGED <<filterVars, run>>
    /\ UNCHANGED <<itemVars, route, latestPage, userVars>>

\* PUT /channel_filters/{id}/
SrvPutChannelFilter(r) ==
    /\ r.op = "saveChannelFilter" /\ r.pc = "req"
    /\ calls' = IF SrvHasFilter(r.f) THEN Answer(r, <<SrvFilter(r.f)>>) ELSE Refuse(r)
    /\ UNCHANGED <<filterVars, run>>
    /\ UNCHANGED <<itemVars, route, latestPage, userVars>>

\* PUT /channel_filters/{id}/move_to_position/?position=n
SrvMoveToPosition(r) ==
    /\ r.op = "moveChannelFilterToPosition" /\ r.pc = "req"
    /\ IF SrvHasFilter(r.f) /\ r.newIndex < Len(srvFilterIds[ChanOf(r.f)])
       THEN LET c == ChanOf(r.f) IN
            /\ srvFilterIds' = [srvFilterIds EXCEPT
                                  ![c] = Move(@, IndexOf(@, r.f), r.newIndex)]
            /\ calls' = Answer(r, <<>>)
       ELSE /\ calls' = Refuse(r)
            /\ UNCHANGED srvFilterIds
    /\ UNCHANGED <<channelFilterIds, channelFilters, run>>
    /\ UNCHANGED <<itemVars, route, latestPage, userVars>>

\* DELETE /channel_filters/{id}
SrvDeleteChannelFilter(r) ==
    /\ r.op = "deleteChannelFilter" /\ r.pc = "req"
    /\ IF SrvHasFilter(r.f)
       THEN LET c == ChanOf(r.f) IN
            /\ srvFilterIds' = [srvFilterIds EXCEPT ![c] = RemoveAt(@, IndexOf(@, r.f) + 1)]
            /\ calls' = Answer(r, <<>>)
       ELSE /\ calls' = Refuse(r)
            /\ UNCHANGED srvFilterIds
    /\ UNCHANGED <<channelFilterIds, channelFilters, run>>
    /\ UNCHANGED <<itemVars, route, latestPage, userVars>>

\* A request that fails on the way (network error, 5xx): nothing changes on
\* the server.
SrvError(r) ==
    /\ r.pc = "req"
    /\ calls' = Refuse(r)
    /\ UNCHANGED <<filterVars, itemVars, run, route, latestPage, userVars>>

----------------------------------------------------------------------------
\* Continuations of the channel-filter operations (the code after an await).

\* The reduce of lines 219-225: the response keyed by filter id.
KeyById(response) ==
    [k \in {response[i].id : i \in DOMAIN response} |->
        response[CHOOSE i \in DOMAIN response : response[i].id = k]]

\* response.map(channelFilter => channelFilter.id), line 246
IdsOf(response) == [i \in DOMAIN response |-> response[i].id]

\* What the await of a failed request leaves behind: the exception leaves
\* the method, whose promise is rejected; no code of the method runs after it.
Rejected(r) == [op |-> r.op, pc |-> "rejected"]

\* Mutant of RecvFailure: the refetch of a move or a delete is sent although
\* the request failed (as from a finally block).
RecvFailureRefetch(r) ==
    /\ run = Idle
    /\ r.pc = "fail"
    /\ calls' = IF r.op \in {"moveChannelFilterToPosition", "deleteChannelFilter"}
                THEN Replace(r, FetchChannelFiltersRequest(r.c, TRUE, "move", r.f))
                ELSE Replace(r, Rejected(r))
    /\ UNCHANGED <<filterVars, itemVars, run, route, latestPage, userVars>>

\* A failed request reaches the client: the await throws (lines 80, 101, 140,
\* 215, 252, 280, 293, 391).
RecvFailure(r) ==
    /\ run = Idle
    /\ r.pc = "fail"
    /\ calls' = Replace(r, Rejected(r))
    /\ UNCHANGED <<filterVars, itemVars, run, route, latestPage, userVars>>

\* fetchChannelFilters, lines 219-232: the first runInAction block.
FetchChannelFiltersMerge(r) ==
    /\ run = Idle
    /\ r.op = "fetchChannelFilters" /\ r.pc = "ok"
    /\ channelFilters' = Spread(channelFilters, KeyById(r.data))
    /\ calls' = calls (-) SetToBag({r})
    /\ run' = [op |-> r.op, c |-> r.c, ow |-> r.ow, via |-> r.via, f |-> r.f,
               data |-> r.data, step |-> 1]
    /\ UNCHANGED <<channelFilterIds, srvFilterIds>>
    /\ UNCHANGED <<itemVars, route, latestPage, userVars>>

\* The value the overwrite block assigns, lines 237-239.
OverwriteValue(response) == KeyById(response)

\* fetchChannelFilters, lines 234-241: the second block, when isOverwrite.
FetchChannelFiltersOverwrite ==
    /\ run.step = 1 /\ run.op = "fetchChannelFilters" /\ run.ow
    /\ channelFilters' = OverwriteValue(run.data)
    /\ run' = [run EXCEPT !.step = 2]
    /\ UNCHANGED <<channelFilterIds, srvFilterIds, calls>>
    /\ UNCHANGED <<itemVars, route, latestPage, userVars>>

\* fetchChannelFilters, lines 243-248: the last block; the method returns.
FetchChannelFiltersIds ==
    /\ run.step \in {1, 2} /\ run.op = "fetchChannelFilters"
    /\ run.step = 1 => ~run.ow
    /\ channelFilterIds' = Spread(channelFilterIds, Single(run.c, IdsOf(run.data)))
    /\ run' = Idle
    /\ UNCHANGED <<channelFilters, srvFilterIds, calls>>
    /\ UNCHANGED <<itemVars, route, latestPage, userVars>>

\* saveChannelFilter, lines 257-264.
SaveChannelFilterDone(r) ==
    /\ run = Idle
    /\ r.op = "saveChannelFilter" /\ r.pc = "ok"
    /\ channelFilters' = Spread(channelFilters, Single(r.data[1].id, r.data[1]))
    /\ calls' = calls (-) SetToBag({r})
    /\ UNCHANGED <<channelFilterIds, srvFilterIds, run>>
    /\ UNCHANGED <<itemVars, route, latestPage, userVars>>

\* What moveChannelFilterToPosition does once its request has succeeded,
\* line 282: it calls fetchChannelFilters(c, true), which sends its request.
AfterMove(r) == Replace(r, FetchChannelFiltersRequest(r.c, TRUE, "move", r.f))

MoveChannelFilterToPositionDone(r) ==
    /\ run = Idle
    /\ r.op = "moveChannelFilterToPosition" /\ r.pc = "ok"
    /\ calls' = AfterMove(r)
    /\ UNCHANGED <<filterVars, run>>
    /\ UNCHANGED <<itemVars, route, latestPage, userVars>>

\* Mutant of AfterDelete: the refetch is made without isOverwrite.
AfterDeleteMerging(r) == Replace(r, FetchChannelFiltersRequest(r.c, FALSE, "delete", r.f))

\* What deleteChannelFilter does once its request has succeeded, line 297.
AfterDelete(r) == Replace(r, FetchChannelFiltersRequest(r.c, TRUE, "delete", r.f))

DeleteChannelFilterDone(r) ==
    /\ run = Idle
    /\ r.op = "deleteChannelFilter" /\ r.pc = "ok"
    /\ calls' = AfterDelete(r)
    /\ UNCHANGED <<filterVars, run>>
    /\ UNCHANGED <<itemVars, route, latestPage, userVars>>

----------------------------------------------------------------------------
\* The row indexes a view can pass to moveChannelFilterToPosition.
RowIndexes == 0..(Cardinality(Filters) - 1)

NextFilters ==
    \/ \E c \in Integrations, ow \in BOOLEAN : FetchChannelFilters(c, ow)
    \/ \E f \in Filters : SaveChannelFilter(f)
    \/ \E c \in Integrations, i, j \in RowIndexes : MoveChannelFilterToPosition(c, i, j)
    \/ \E f \in Filters : DeleteChannelFilter(f)
    \/ \E r \in BagToSet(calls) : SrvGetChannelFilters(r)
    \/ \E r \in BagToSet(calls) : SrvPutChannelFilter(r)
    \/ \E r \in BagToSet(calls) : SrvMoveToPosition(r)
    \/ \E r \in BagToSet(calls) : SrvDeleteChannelFilter(r)
    \/ \E r \in BagToSet(calls) : SrvError(r)
    \/ \E r \in BagToSet(calls) : RecvFailure(r)
    \/ \E r \in BagToSet(calls) : FetchChannelFiltersMerge(r)
    \/ FetchChannelFiltersOverwrite
    \/ FetchChannelFiltersIds
    \/ \E r \in BagToSet(calls) : SaveChannelFilterDone(r)
    \/ \E r \in BagToSet(calls) : MoveChannelFilterToPositionDone(r)
    \/ \E r \in BagToSet(calls) : DeleteChannelFilterDone(r)


SpecFilters == Init /\ [][NextFilters]_vars

\* The store once fetchChannelFilters of every integration has been applied
\* and nothing has changed on the server since (a state SpecFilters reaches
\* from Init by fetchChannelFilters(c1) and fetchChannelFilters(c2)).
InitLoaded ==
    /\ InitItems
    /\ srvFilterIds = [c \in Integrations |-> IF c = "c1" THEN <<"f1", "f2">> ELSE <<"f3">>]
    /\ channelFilterIds = srvFilterIds
    /\ channelFilters = [f \in Filters |-> SrvFilter(f)]
    /\ calls = EmptyBag
    /\ run = Idle
    /\ InitUser

\* Only moveChannelFilterToPosition and deleteChannelFilter are called.
NextOrder ==
    \/ \E c \in Integrations, i, j \in RowIndexes : MoveChannelFilterToPosition(c, i, j)
    \/ \E f \in Filters : DeleteChannelFilter(f)
    \/ \E r \in BagToSet(calls) : SrvGetChannelFilters(r)
    \/ \E r \in BagToSet(calls) : SrvMoveToPosition(r)
    \/ \E r \in BagToSet(calls) : SrvDeleteChannelFilter(r)
    \/ \E r \in BagToSet(calls) : SrvError(r)
    \/ \E r \in BagToSet(calls) : RecvFailure(r)
    \/ \E r \in BagToSet(calls) : FetchChannelFiltersMerge(r)
    \/ FetchChannelFiltersOverwrite
    \/ FetchChannelFiltersIds
    \/ \E r \in BagToSet(calls) : MoveChannelFilterToPositionDone(r)
    \/ \E r \in BagToSet(calls) : DeleteChannelFilterDone(r)


SpecOrder == InitLoaded /\ [][NextOrder]_vars

----------------------------------------------------------------------------
\* Integrations, heartbeats and counters: the server side.

\* The AlertReceiveChannel the server returns for c: heartbeat is the
\* heartbeat object (named by its id) or null.
SrvItem(c) == [id |-> c, heartbeat |-> srvHeartbeat[c]]

\* The integrations matching a query, in the server's order; a query is
\* modelled by the set of integrations it matches.
Matching(query) == SelectSeq(IntegrationList, LAMBDA c : c \in query)

\* GET /alert_receive_channels/ without paging: every match.
SrvListItems(query) == [i \in DOMAIN Matching(query) |-> SrvItem(Matching(query)[i])]

\* The page of a paginated list: the matches (page-1)*PageSize+1 .. page*PageSize.
SrvPage(query, page) ==
    LET all == SrvListItems(query)
        lo == (page - 1) * PageSize + 1
        hi == IF page * PageSize < Len(all) THEN page * PageSize ELSE Len(all)
    IN [i \in 1..(hi - lo + 1) |-> all[lo + i - 1]]

\* A page exists when it holds an item; page 1 always exists.
SrvPageExists(query, page) == page = 1 \/ (page - 1) * PageSize < Len(Matching(query))

\* GET /alert_receive_channels/{id}/
SrvGetItem(r) ==
    /\ r.pc = "req" /\ r.op = "fetchItemById"
    /\ calls' = Answer(r, <<SrvItem(r.id)>>)
    /\ UNCHANGED <<itemVars, run>>
    /\ UNCHANGED <<filterVars, route, latestPage, userVars>>

\* GET /alert_receive_channels/?search=...
SrvGetItems(r) ==
    /\ r.pc = "req" /\ r.op = "fetchItems"
    /\ calls' = Answer(r, SrvListItems(r.query))
    /\ UNCHANGED <<itemVars, run>>
    /\ UNCHANGED <<filterVars, route, latestPage, userVars>>

\* GET /alert_receive_channels/?...&page=n: {count, results, page_size}
SrvGetPage(r) ==
    /\ r.pc = "req" /\ r.op = "fetchPaginatedItems"
    /\ calls' = IF SrvPageExists(r.query, r.page)
                THEN Replace(r, [r EXCEPT !.pc = "ok", !.data = SrvPage(r.query, r.page),
                                          !.count = Len(Matching(r.query))])
                ELSE Refuse(r)
    /\ UNCHANGED <<itemVars, run>>
    /\ UNCHANGED <<filterVars, route, latestPage, userVars>>

\* GET /alert_receive_channels/counters/
SrvGetCounters(r) ==
    /\ r.pc = "req" /\ r.op = "fetchCounters"
    /\ calls' = Answer(r, <<"counters">>)
    /\ UNCHANGED <<itemVars, run>>
    /\ UNCHANGED <<filterVars, route, latestPage, userVars>>

\* The heartbeat of c is created or removed on the server (by another store
\* or another user).
SrvHeartbeatChanges(c) ==
    /\ srvHeartbeat' = [srvHeartbeat EXCEPT
                           ![c] = IF @ = "null" THEN HeartbeatOf(c) ELSE "null"]
    /\ UNCHANGED <<items, searchResult, paginatedSearchResult, counters,
                   alertReceiveChannelToHeartbeat, heartbeatItems,
                   returned, calls, run>>
    /\ UNCHANGED <<filterVars, route, latestPage, userVars>>

----------------------------------------------------------------------------
\* Integrations: the requests of the store methods.

storeItemVars == <<items, searchResult, paginatedSearchResult, counters,
                   alertReceiveChannelToHeartbeat, heartbeatItems>>

\* fetchItemById(id), lines 76-82.
FetchItemById(id) ==
    /\ ClientFree
    /\ calls' = calls (+) SetToBag({[op |-> "fetchItemById", id |-> id,
                                     pc |-> "req", data |-> <<>>]})
    /\ UNCHANGED <<itemVars, run>>
    /\ UNCHANGED <<filterVars, route, latestPage, userVars>>

\* fetchItems(query), lines 96-101.
FetchItems(query) ==
    /\ ClientFree
    /\ calls' = calls (+) SetToBag({[op |-> "fetchItems", query |-> query,
                                     pc |-> "req", data |-> <<>>]})
    /\ UNCHANGED <<itemVars, run>>
    /\ UNCHANGED <<filterVars, route, latestPage, userVars>>

\* A newer fetchPaginatedItems call makes every earlier one stale.
Outdate(bag) ==
    LET Old(r) == IF r.op = "fetchPaginatedItems" /\ r.pc # "rejected"
                     /\ r.invalidateFn = "isStale"
                  THEN [r EXCEPT !.newest = FALSE] ELSE r
        Recs == BagToSet(bag)
        Olds == {Old(r) : r \in Recs}
    IN [o \in Olds |-> LET Pre == {r \in Recs : Old(r) = o}
                           Sum[S \in SUBSET Pre] ==
                               IF S = {} THEN 0
                               ELSE LET x == CHOOSE x \in S : TRUE
                                    IN bag[x] + Sum[S \ {x}]
                       IN Sum[Pre]]

\* fetchPaginatedItems({filters, page, shouldFetchCounters, invalidateFn}),
\* lines 127-140.  invalidateFn is "undefined", or "isStale": the caller's
\* function that answers whether a newer fetchPaginatedItems call was made.
FetchPaginatedItems(query, page, shouldFetchCounters, invalidateFn) ==
    /\ ClientFree
    /\ calls' = Outdate(calls) (+)
                SetToBag({[op |-> "fetchPaginatedItems", query |-> query, page |-> page,
                           shouldFetchCounters |-> shouldFetchCounters,
                           invalidateFn |-> invalidateFn, newest |-> TRUE,
                           pc |-> "req", data |-> <<>>, count |-> 0]})
    /\ latestPage' = [issued |-> TRUE, query |-> query, page |-> page]
    /\ UNCHANGED <<itemVars, run>>
    /\ UNCHANGED <<filterVars, route, userVars>>

\* The request of fetchCounters(), lines 390-391.
FetchCountersRequest == [op |-> "fetchCounters", pc |-> "req", data |-> <<>>]


----------------------------------------------------------------------------
\* Integrations: the continuations.

\* omit(item, 'heartbeat'), lines 109 and 152.
OmitHeartbeat(item) == [id |-> item.id, heartbeat |-> "omitted"]

\* The reduce of lines 106-112 and 149-155.
ItemsById(results) ==
    [k \in {results[i].id : i \in DOMAIN results} |->
        OmitHeartbeat(results[CHOOSE i \in DOMAIN results : results[i].id = k])]

\* populateHearbeats, lines 177-186: the heartbeats of the response by id.
HeartbeatsOf(alertReceiveChannels) ==
    [h \in {alertReceiveChannels[i].heartbeat :
               i \in {j \in DOMAIN alertReceiveChannels :
                         alertReceiveChannels[j].heartbeat # "null"}} |-> [id |-> h]]

\* populateHearbeats, lines 195-204: integration id -> heartbeat id, for the
\* integrations of the response that have a heartbeat.
ToHeartbeatOf(alertReceiveChannels) ==
    LET with == {i \in DOMAIN alertReceiveChannels :
                    alertReceiveChannels[i].heartbeat # "null"}
    IN [c \in {alertReceiveChannels[i].id : i \in with} |->
           alertReceiveChannels[CHOOSE i \in with : alertReceiveChannels[i].id = c].heartbeat]

\* populateHearbeats, lines 206-211: the value of the last block.
MergedToHeartbeat(alertReceiveChannels) ==
    Spread(alertReceiveChannelToHeartbeat, ToHeartbeatOf(alertReceiveChannels))

\* fetchItemById, lines 84-89: the first block.
FetchItemByIdItems(r) ==
    /\ run = Idle
    /\ r.pc = "ok" /\ r.op = "fetchItemById"
    /\ items' = Spread(items, Single(r.id, r.data[1]))
    /\ calls' = calls (-) SetToBag({r})
    /\ run' = [op |-> r.op, data |-> r.data, step |-> 1]
    /\ UNCHANGED <<searchResult, paginatedSearchResult, counters,
                   alertReceiveChannelToHeartbeat, heartbeatItems,
                   srvHeartbeat, returned>>
    /\ UNCHANGED <<filterVars, route, latestPage, userVars>>

\* fetchItems, lines 103-114: the first block.
\* Mutant of FetchItemsItems: the response replaces items instead of being
\* merged into it.
FetchItemsItemsReplace(r) ==
    /\ run = Idle
    /\ r.pc = "ok" /\ r.op = "fetchItems"
    /\ items' = ItemsById(r.data)
    /\ calls' = calls (-) SetToBag({r})
    /\ run' = [op |-> r.op, data |-> r.data, step |-> 1]
    /\ UNCHANGED <<searchResult, paginatedSearchResult, counters,
                   alertReceiveChannelToHeartbeat, heartbeatItems,
                   srvHeartbeat, returned>>
    /\ UNCHANGED <<filterVars, route, latestPage, userVars>>

FetchItemsItems(r) ==
    /\ run = Idle
    /\ r.pc = "ok" /\ r.op = "fetchItems"
    /\ items' = Spread(items, ItemsById(r.data))
    /\ calls' = calls (-) SetToBag({r})
    /\ run' = [op |-> r.op, data |-> r.data, step |-> 1]
    /\ UNCHANGED <<searchResult, paginatedSearchResult, counters,
                   alertReceiveChannelToHeartbeat, heartbeatItems,
                   srvHeartbeat, returned>>
    /\ UNCHANGED <<filterVars, route, latestPage, userVars>>

\* Mutant of Invalidated: the answer of invalidateFn is ignored.
InvalidatedIgnored(r) == FALSE

\* invalidateFn?.(), line 142.
Invalidated(r) == r.invalidateFn = "isStale" /\ ~r.newest

\* Mutant of FetchPaginatedItemsStale: invalidateFn is asked only after the
\* first block has merged the response into items.
FetchPaginatedItemsStaleAfterMerge(r) ==
    /\ run = Idle
    /\ r.pc = "ok" /\ r.op = "fetchPaginatedItems"
    /\ Invalidated(r)
    /\ items' = Spread(items, ItemsById(r.data))
    /\ calls' = calls (-) SetToBag({r})
    /\ returned' = [op |-> r.op, value |-> Undefined]
    /\ UNCHANGED <<searchResult, paginatedSearchResult, counters,
                   alertReceiveChannelToHeartbeat, heartbeatItems, srvHeartbeat, run>>
    /\ UNCHANGED <<filterVars, route, latestPage, userVars>>

\* fetchPaginatedItems, lines 142-144: the response is dropped.
FetchPaginatedItemsStale(r) ==
    /\ run = Idle
    /\ r.pc = "ok" /\ r.op = "fetchPaginatedItems"
    /\ Invalidated(r)
    /\ calls' = calls (-) SetToBag({r})
    /\ returned' = [op |-> r.op, value |-> Undefined]
    /\ UNCHANGED <<storeItemVars, srvHeartbeat, run>>
    /\ UNCHANGED <<filterVars, route, latestPage, userVars>>

\* fetchPaginatedItems, lines 146-157: the first block.
FetchPaginatedItemsItems(r) ==
    /\ run = Idle
    /\ r.pc = "ok" /\ r.op = "fetchPaginatedItems"
    /\ ~Invalidated(r)
    /\ items' = Spread(items, ItemsById(r.data))
    /\ calls' = calls (-) SetToBag({r})
    /\ run' = [op |-> r.op, data |-> r.data, count |-> r.count,
               shouldFetchCounters |-> r.shouldFetchCounters, step |-> 1]
    /\ UNCHANGED <<searchResult, paginatedSearchResult, counters,
                   alertReceiveChannelToHeartbeat, heartbeatItems,
                   srvHeartbeat, returned>>
    /\ UNCHANGED <<filterVars, route, latestPage, userVars>>

ItemOps == {"fetchItemById", "fetchItems", "fetchPaginatedItems"}

\* populateHearbeats, lines 188-193: heartbeatStore.items.
PopulateHeartbeatItems ==
    /\ run.step = 1 /\ run.op \in ItemOps
    /\ heartbeatItems' = Spread(heartbeatItems, HeartbeatsOf(run.data))
    /\ run' = [run EXCEPT !.step = 2]
    /\ UNCHANGED <<items, searchResult, paginatedSearchResult, counters,
                   alertReceiveChannelToHeartbeat, srvHeartbeat,
                   returned, calls>>
    /\ UNCHANGED <<filterVars, route, latestPage, userVars>>

\* populateHearbeats, lines 206-211: alertReceiveChannelToHeartbeat.  It is
\* the last statement of fetchItemById, which returns (line 93).
PopulateToHeartbeat ==
    /\ run.step = 2 /\ run.op \in ItemOps
    /\ alertReceiveChannelToHeartbeat' = MergedToHeartbeat(run.data)
    /\ IF run.op = "fetchItemById"
       THEN /\ run' = Idle
            /\ returned' = [op |-> run.op, value |-> IdsOf(run.data)]
       ELSE /\ run' = [run EXCEPT !.step = 3]
            /\ UNCHANGED returned
    /\ UNCHANGED <<items, searchResult, paginatedSearchResult, counters,
                   heartbeatItems, srvHeartbeat, calls>>
    /\ UNCHANGED <<filterVars, route, latestPage, userVars>>

\* fetchItems, lines 118-124: searchResult, then fetchCounters() sends its
\* request and the method returns.
FetchItemsSearchResult ==
    /\ run.step = 3 /\ run.op = "fetchItems"
    /\ searchResult' = IdsOf(run.data)
    /\ calls' = calls (+) SetToBag({FetchCountersRequest})
    /\ returned' = [op |-> run.op, value |-> IdsOf(run.data)]
    /\ run' = Idle
    /\ UNCHANGED <<items, paginatedSearchResult, counters,
                   alertReceiveChannelToHeartbeat, heartbeatItems,
                   srvHeartbeat>>
    /\ UNCHANGED <<filterVars, route, latestPage, userVars>>

\* fetchPaginatedItems, lines 161-173: paginatedSearchResult, then
\* fetchCounters() when shouldFetchCounters, and the method returns.
FetchPaginatedItemsResult ==
    /\ run.step = 3 /\ run.op = "fetchPaginatedItems"
    /\ paginatedSearchResult' =
           [count |-> run.count, results |-> IdsOf(run.data), page_size |-> PageSize]
    /\ calls' = IF run.shouldFetchCounters
                THEN calls (+) SetToBag({FetchCountersRequest})
                ELSE calls
    /\ returned' = [op |-> run.op, value |-> IdsOf(run.data)]
    /\ run' = Idle
    /\ UNCHANGED <<items, searchResult, counters,
                   alertReceiveChannelToHeartbeat, heartbeatItems,
                   srvHeartbeat>>
    /\ UNCHANGED <<filterVars, route, latestPage, userVars>>

\* fetchCounters, lines 392-394.
FetchCountersDone(r) ==
    /\ run = Idle
    /\ r.pc = "ok" /\ r.op = "fetchCounters"
    /\ counters' = Single("data", r.data[1])
    /\ calls' = calls (-) SetToBag({r})
    /\ UNCHANGED <<items, searchResult, paginatedSearchResult,
                   alertReceiveChannelToHeartbeat, heartbeatItems,
                   srvHeartbeat, returned, run>>
    /\ UNCHANGED <<filterVars, route, latestPage, userVars>>

\* saveAlertReceiveChannel(id, payload), lines 309-322.  Line 313 reads
\* this.items[id] and lines 317-320 read its fields: when the store does not
\* hold id the method throws before a request is sent.
SaveAlertReceiveChannel(id) ==
    /\ ClientFree
    /\ calls' = calls (+)
                SetToBag({IF id \in DOMAIN items
                          THEN [op |-> "saveAlertReceiveChannel", id |-> id,
                                pc |-> "req", data |-> <<>>]
                          ELSE [op |-> "saveAlertReceiveChannel", pc |-> "rejected"]})
    /\ UNCHANGED <<itemVars, run>>
    /\ UNCHANGED <<filterVars, route, latestPage, userVars>>

\* PUT /alert_receive_channels/{id}/ answers with the integration.
SrvPutItem(r) ==
    /\ r.pc = "req" /\ r.op = "saveAlertReceiveChannel"
    /\ calls' = Answer(r, <<SrvItem(r.id)>>)
    /\ UNCHANGED <<itemVars, run>>
    /\ UNCHANGED <<filterVars, route, latestPage, userVars>>

\* saveAlertReceiveChannel, lines 324-329.
SaveAlertReceiveChannelDone(r) ==
    /\ run = Idle
    /\ r.pc = "ok" /\ r.op = "saveAlertReceiveChannel"
    /\ items' = Spread(items, Single(r.id, r.data[1]))
    /\ calls' = calls (-) SetToBag({r})
    /\ UNCHANGED <<searchResult, paginatedSearchResult, counters,
                   alertReceiveChannelToHeartbeat, heartbeatItems,
                   srvHeartbeat, returned, run>>
    /\ UNCHANGED <<filterVars, route, latestPage, userVars>>

\* The queries the views send: one matching every integration, one matching c2.
Queries == {Integrations, {"c2"}}

\* fetchItemById and fetchItems are called while heartbeats come and go on
\* the server.
NextItems ==
    \/ \E id \in Integrations : FetchItemById(id)
    \/ \E q \in Queries : FetchItems(q)
    \/ \E r \in BagToSet(calls) : SrvGetItem(r)
    \/ \E r \in BagToSet(calls) : SrvGetItems(r)
    \/ \E r \in BagToSet(calls) : SrvGetCounters(r)
    \/ \E c \in Integrations : SrvHeartbeatChanges(c)
    \/ \E r \in BagToSet(calls) : SrvError(r)
    \/ \E r \in BagToSet(calls) : RecvFailure(r)
    \/ \E r \in BagToSet(calls) : FetchItemByIdItems(r)
    \/ \E r \in BagToSet(calls) : FetchItemsItems(r)
    \/ PopulateHeartbeatItems
    \/ PopulateToHeartbeat
    \/ FetchItemsSearchResult
    \/ \E r \in BagToSet(calls) : FetchCountersDone(r)


\* Only fetchPaginatedItems is called.
NextPaginated ==
    \/ \E q \in Queries, p \in 1..MaxPage, sfc \in BOOLEAN, inv \in {"undefined", "isStale"} :
          FetchPaginatedItems(q, p, sfc, inv)
    \/ \E r \in BagToSet(calls) : SrvGetPage(r)
    \/ \E r \in BagToSet(calls) : SrvGetCounters(r)
    \/ \E r \in BagToSet(calls) : RecvFailure(r)
    \/ \E r \in BagToSet(calls) : FetchPaginatedItemsStale(r)
    \/ \E r \in BagToSet(calls) : FetchPaginatedItemsItems(r)
    \/ PopulateHeartbeatItems
    \/ PopulateToHeartbeat
    \/ FetchPaginatedItemsResult
    \/ \E r \in BagToSet(calls) : FetchCountersDone(r)


SpecPaginated == Init /\ [][NextPaginated]_vars

\* The list view: every fetchPaginatedItems call passes an invalidateFn that
\* answers whether a newer call was made.
NextLatest ==
    \/ \E q \in Queries, p \in 1..MaxPage, sfc \in BOOLEAN :
          FetchPaginatedItems(q, p, sfc, "isStale")
    \/ \E r \in BagToSet(calls) : SrvGetPage(r)
    \/ \E r \in BagToSet(calls) : SrvGetCounters(r)
    \/ \E r \in BagToSet(calls) : RecvFailure(r)
    \/ \E r \in BagToSet(calls) : FetchPaginatedItemsStale(r)
    \/ \E r \in BagToSet(calls) : FetchPaginatedItemsItems(r)
    \/ PopulateHeartbeatItems
    \/ PopulateToHeartbeat
    \/ FetchPaginatedItemsResult
    \/ \E r \in BagToSet(calls) : FetchCountersDone(r)

SpecLatest == Init /\ [][NextLatest]_vars

SpecItems == Init /\ [][NextItems]_vars

\* Every method that writes items, searchResult or paginatedSearchResult is
\* called, in any interleaving; the server's integrations do not change.
NextSearch ==
    \/ \E id \in Integrations : FetchItemById(id)
    \/ \E q \in Queries : FetchItems(q)
    \/ \E q \in Queries, p \in 1..MaxPage : FetchPaginatedItems(q, p, FALSE, "undefined")
    \/ \E id \in Integrations : SaveAlertReceiveChannel(id)
    \/ \E r \in BagToSet(calls) : SrvGetItem(r)
    \/ \E r \in BagToSet(calls) : SrvGetItems(r)
    \/ \E r \in BagToSet(calls) : SrvGetPage(r)
    \/ \E r \in BagToSet(calls) : SrvPutItem(r)
    \/ \E r \in BagToSet(calls) : SrvGetCounters(r)
    \/ \E r \in BagToSet(calls) : RecvFailure(r)
    \/ \E r \in BagToSet(calls) : FetchItemByIdItems(r)
    \/ \E r \in BagToSet(calls) : FetchItemsItems(r)
    \/ \E r \in BagToSet(calls) : FetchPaginatedItemsItems(r)
    \/ \E r \in BagToSet(calls) : SaveAlertReceiveChannelDone(r)
    \/ PopulateHeartbeatItems
    \/ PopulateToHeartbeat
    \/ FetchItemsSearchResult
    \/ FetchPaginatedItemsResult
    \/ \E r \in BagToSet(calls) : FetchCountersDone(r)

SpecSearch == Init /\ [][NextSearch]_vars

----------------------------------------------------------------------------
\* CommonIntegrationHelper: the wording of a route row.

\* Object.keys(channelFilters).length, lines 9 and 22.
TotalCount(channelFilterList) == Cardinality(DOMAIN channelFilterList)

\* Mutant of GetRouteConditionWording: the index is compared with the count.
GetRouteConditionWordingOffByOne(channelFilterList, routeIndex) ==
    IF routeIndex = TotalCount(channelFilterList)
    THEN "Default"
    ELSE IF routeIndex # 0 THEN "Else" ELSE "If"

\* getRouteConditionWording(channelFilters, routeIndex), lines 8-15.
GetRouteConditionWording(channelFilterList, routeIndex) ==
    IF routeIndex = TotalCount(channelFilterList) - 1
    THEN "Default"
    ELSE IF routeIndex # 0 THEN "Else" ELSE "If"

\* Lists of distinct filter ids of length 1..MaxRoutes (the helper reads only
\* the keys of the list, so the ids are numbered).
RouteLists ==
    {l \in UNION {[1..n -> 1..MaxRoutes] : n \in 1..MaxRoutes} :
        \A i, j \in DOMAIN l : i # j => l[i] # l[j]}

\* labels: absent ("undefined") or an array of 0..MaxLabels label pairs,
\* modelled by its length.
LabelValues == {[defined |-> FALSE, length |-> 0]}
               \cup {[defined |-> TRUE, length |-> n] : n \in 0..MaxLabels}

DefaultRouteText ==
    "If the alert payload does not match to the previous routes, it will stick to the default route."
LabelsText == "Alerts matching these labels will be grouped to this route"
RoutingTemplateText == "Alerts will be grouped based on the Routing Template and escalated"

\* labels?.length, line 29: truthy for an array that holds a label.
HasLabels(labels) == labels.defined /\ labels.length # 0

\* Mutant of GetRouteConditionTooltipWording: the labels are looked at before
\* the position.
GetRouteConditionTooltipWordingLabelsFirst(channelFilterList, routeIndex, labels) ==
    IF HasLabels(labels)
    THEN LabelsText
    ELSE IF routeIndex = TotalCount(channelFilterList) - 1
         THEN DefaultRouteText
         ELSE RoutingTemplateText

\* getRouteConditionTooltipWording(channelFilters, routeIndex, labels),
\* lines 17-35.
GetRouteConditionTooltipWording(channelFilterList, routeIndex, labels) ==
    IF routeIndex = TotalCount(channelFilterList) - 1
    THEN DefaultRouteText
    ELSE IF HasLabels(labels)
         THEN LabelsText
         ELSE RoutingTemplateText

\* A view renders row routeIndex of a list of routes.
RenderRoute(channelFilterList, routeIndex, labels) ==
    /\ routeIndex \in 0..(Len(channelFilterList) - 1)
    /\ route' = [rendered |-> TRUE, channelFilters |-> channelFilterList,
                 routeIndex |-> routeIndex, labels |-> labels,
                 wording |-> GetRouteConditionWording(channelFilterList, routeIndex),
                 tooltip |-> GetRouteConditionTooltipWording(channelFilterList,
                                                             routeIndex, labels)]
    /\ UNCHANGED <<filterVars, itemVars, calls, run, latestPage, userVars>>

NextWording ==
    \E l \in RouteLists, i \in 0..(MaxRoutes - 1), labels \in LabelValues :
        RenderRoute(l, i, labels)

SpecWording == Init /\ [][NextWording]_vars

----------------------------------------------------------------------------
\* GoogleConnector: the Google account row of the user settings.

otherVars == <<filterVars, itemVars, calls, run, route, latestPage>>

\* Every state of the user store over Users.
UserStoreStates ==
    [items : [Users -> [has_google_oauth2_connected : BOOLEAN]],
     currentUserPk : Users]

\* Mutant of IsCurrentUser: every viewed user counts as the current one.
IsCurrentUserAlways(store, id) == TRUE

\* isCurrentUser, line 438.
IsCurrentUser(store, id) == id = store.currentUserPk

\* What GoogleConnector renders for user id from a store, lines 444-465: the
\* buttons, each with its label, its disabled prop and its onClick handler.
Render(store, id) ==
    IF store.items[id].has_google_oauth2_connected
    THEN {[label |-> "Disconnect", disabled |-> ~IsCurrentUser(store, id),
           onClick |-> "userStore.disconnectGoogle"]}
    ELSE {[label |-> "Connect account", disabled |-> ~IsCurrentUser(store, id),
           onClick |-> "handleConnectButtonClick"]}

\* The buttons of the rendered row that a click reaches.
Enabled(label) == {b \in googleConnector.buttons : b.label = label /\ ~b.disabled}

\* The user settings show the Google account row of user id.
MountGoogleConnector(id) ==
    /\ googleConnector.id # id
    /\ googleConnector' = [mounted |-> TRUE, id |-> id, buttons |-> Render(userStore, id),
                           confirm |-> FALSE, called |-> googleConnector.called]
    /\ UNCHANGED <<userStore, otherVars>>

\* A click on 'Connect account': handleConnectButtonClick, lines 440-442.
ClickConnectAccount ==
    /\ \E b \in Enabled("Connect account") : b.onClick = "handleConnectButtonClick"
    /\ googleConnector' = [googleConnector EXCEPT
                              !.called = "onTabChange(UserSettingsTab.GoogleCalendar)"]
    /\ UNCHANGED <<userStore, otherVars>>

\* A click on 'Disconnect': WithConfirm (line 452) asks before it calls the
\* button's onClick.
ClickDisconnect ==
    /\ Enabled("Disconnect") # {}
    /\ ~googleConnector.confirm
    /\ googleConnector' = [googleConnector EXCEPT !.confirm = TRUE]
    /\ UNCHANGED <<userStore, otherVars>>

\* The question is answered with 'Cancel'.
CancelDisconnect ==
    /\ googleConnector.confirm
    /\ googleConnector' = [googleConnector EXCEPT !.confirm = FALSE]
    /\ UNCHANGED <<userStore, otherVars>>

\* userStore.disconnectGoogle(): the link of the current user is removed.
DisconnectGoogle(store) ==
    [store EXCEPT !.items[store.currentUserPk].has_google_oauth2_connected = FALSE]

\* The question is answered with 'Disconnect': the button's onClick runs
\* (line 453), and the observer renders the row again.
ConfirmDisconnect ==
    /\ googleConnector.confirm
    /\ \E b \in Enabled("Disconnect") : b.onClick = "userStore.disconnectGoogle"
    /\ userStore' = DisconnectGoogle(userStore)
    /\ googleConnector' = [googleConnector EXCEPT
                              !.buttons = Render(userStore', googleConnector.id),
                              !.confirm = FALSE,
                              !.called = "userStore.disconnectGoogle"]
    /\ UNCHANGED otherVars

\* User u has linked a Google account and the store has loaded the user
\* again; the observer renders the row again.
GoogleConnected(u) ==
    /\ ~userStore.items[u].has_google_oauth2_connected
    /\ userStore' = [userStore EXCEPT !.items[u].has_google_oauth2_connected = TRUE]
    /\ googleConnector' =
           IF googleConnector.mounted
           THEN [googleConnector EXCEPT !.buttons = Render(userStore', googleConnector.id)]
           ELSE googleConnector
    /\ UNCHANGED otherVars

InitGoogle ==
    /\ InitChannelStore
    /\ userStore \in UserStoreStates
    /\ googleConnector = Unmounted

NextGoogle ==
    \/ \E id \in Users : MountGoogleConnector(id)
    \/ ClickConnectAccount
    \/ ClickDisconnect
    \/ CancelDisconnect
    \/ ConfirmDisconnect
    \/ \E u \in Users : GoogleConnected(u)

SpecGoogle == InitGoogle /\ [][NextGoogle]_vars

----------------------------------------------------------------------------
Next == NextFilters \/ NextItems \/ NextPaginated \/ NextLatest \/ NextSearch
        \/ NextWording \/ NextGoogle

Spec == Init /\ [][Next]_vars

----------------------------------------------------------------------------
\* Properties of the channel-filter operations.

\* r is sent (or handed on) in this step / r is taken off the network.
Appears(r) == CopiesIn(r, calls') > CopiesIn(r, calls)
Leaves(r) == CopiesIn(r, calls') < CopiesIn(r, calls)

\* C1: once every issued move and delete has been answered successfully and
\* its refetch applied, and no call is in flight, channelFilterIds[c] is the
\* server's ordered list of c's filter ids.  (A rejected call stays in calls,
\* so an empty bag means that every call succeeded.)
C1_OrderEventuallyConsistent ==
    (calls = EmptyBag /\ run = Idle) =>
        \A c \in Integrations : channelFilterIds[c] = srvFilterIds[c]

\* C2: a key of channelFilters disappears only in a step of
\* deleteChannelFilter of that key (its refetch is applied).
C2_KeysDestroyedOnlyByDelete ==
    [][\A f \in DOMAIN channelFilters :
          f \notin DOMAIN channelFilters' =>
              (run.step = 1 /\ run.op = "fetchChannelFilters"
                /\ run.via = "delete" /\ run.f = f)]_vars

\* C3: moveChannelFilterToPosition (1) has reordered the local list when its
\* request leaves, (2) sends exactly one move_to_position request, for the id
\* that stood at oldIndex before the reorder and with position newIndex, and
\* (3) its refetch is sent only in the step that takes the successful answer
\* of the move request.
C3_MoveStepsInOrder ==
    [][/\ \A m \in BagToSet(calls') :
            (m.pc = "req" /\ m.op = "moveChannelFilterToPosition" /\ Appears(m)) =>
                /\ channelFilterIds'[m.c] =
                       Move(channelFilterIds[m.c], m.oldIndex, m.newIndex)
                /\ m.f = channelFilterIds[m.c][m.oldIndex + 1]
                /\ calls' = calls (+) SetToBag({m})
       /\ \A q \in BagToSet(calls') :
            (q.pc = "req" /\ q.op = "fetchChannelFilters" /\ q.via = "move" /\ Appears(q)) =>
                /\ q.ow
                /\ \E m \in BagToSet(calls) :
                      /\ m.op = "moveChannelFilterToPosition" /\ m.pc = "ok"
                      /\ m.c = q.c
                      /\ calls' = (calls (-) SetToBag({m})) (+) SetToBag({q})]_vars

\* C3 witness: the refetch of a move that changed the order has been answered.
C3_Witness ==
    \E q \in BagToSet(calls) :
        /\ q.pc = "ok" /\ q.op = "fetchChannelFilters" /\ q.via = "move"
        /\ IdsOf(q.data) = <<"f2", "f1">>

\* C6: the step that takes a failed answer changes nothing in the store and
\* sends nothing, and a rejected call never acts again: a failed move or
\* delete is followed by no refetch and channelFilterIds keeps the optimistic
\* order.
C6_NoRecoveryAfterFailure ==
    [][/\ \A r \in BagToSet(calls) :
            (r.pc = "fail" /\ Leaves(r)) =>
                /\ channelFilterIds' = channelFilterIds
                /\ channelFilters' = channelFilters
                /\ \A q \in BagToSet(calls') : q.pc = "req" => ~Appears(q)
                /\ BagCardinality(calls') = BagCardinality(calls)
       /\ \A r \in BagToSet(calls) : r.pc = "rejected" => ~Leaves(r)]_vars

\* C6 witness: a move was rejected, nothing is in flight, and the list still
\* has the optimistic order, which is not the server's.
C6_Witness ==
    /\ run = Idle
    /\ \A r \in BagToSet(calls) : r.pc = "rejected"
    /\ \E r \in BagToSet(calls) : r.op = "moveChannelFilterToPosition"
    /\ channelFilterIds["c1"] = <<"f2", "f1">>
    /\ srvFilterIds["c1"] = <<"f1", "f2">>

\* C7: at rest, every id in channelFilterIds[c] is a key of channelFilters.
C7_IdsAreKeys ==
    run = Idle =>
        \A c \in DOMAIN channelFilterIds :
            Range(channelFilterIds[c]) \subseteq DOMAIN channelFilters

\* C8: the step that starts deleteChannelFilter(f) leaves the list of f's
\* integration as it was, with f taken out.
C8_DeleteRemovesOnlyF ==
    [][\A d \in BagToSet(calls') :
          (d.pc = "req" /\ d.op = "deleteChannelFilter" /\ Appears(d)) =>
              channelFilterIds'[d.c] =
                  SelectSeq(channelFilterIds[d.c], LAMBDA x : x # d.f)]_vars

\* C4 (fetchChannelFilters): no state an observer sees has channelFilters
\* updated from a response while channelFilterIds[c] is not.
C4_ResponseAppliedAtomically ==
    (run.step >= 1 /\ run.op = "fetchChannelFilters") =>
        /\ run.c \in DOMAIN channelFilterIds
        /\ channelFilterIds[run.c] = IdsOf(run.data)

----------------------------------------------------------------------------
\* Properties of the integration operations.

\* C9: when the heartbeat part of a response has been applied, every
\* integration c of the response is mapped to its heartbeat if the response
\* carries one (and heartbeatStore.items holds that heartbeat), and has no
\* entry in alertReceiveChannelToHeartbeat if the response carries none.
C9_HeartbeatMappingFollowsServer ==
    [][(run.step = 2 /\ run.op \in ItemOps /\ run' # run) =>
          \A i \in DOMAIN run.data :
              LET c == run.data[i].id
                  h == run.data[i].heartbeat
              IN IF h # "null"
                 THEN /\ c \in DOMAIN alertReceiveChannelToHeartbeat'
                      /\ alertReceiveChannelToHeartbeat'[c] = h
                      /\ h \in DOMAIN heartbeatItems'
                      /\ heartbeatItems'[h].id = h
                 ELSE c \notin DOMAIN alertReceiveChannelToHeartbeat']_vars

\* C10: the step that takes a paginated response whose invalidateFn answers
\* true returns undefined, changes nothing in the store and sends nothing.
C10_StaleResponseChangesNothing ==
    [][\A r \in BagToSet(calls) :
          (r.pc = "ok" /\ r.op = "fetchPaginatedItems"
             /\ r.invalidateFn = "isStale" /\ ~r.newest /\ Leaves(r)) =>
              /\ returned' = [op |-> "fetchPaginatedItems", value |-> Undefined]
              /\ items' = items
              /\ paginatedSearchResult' = paginatedSearchResult
              /\ alertReceiveChannelToHeartbeat' = alertReceiveChannelToHeartbeat
              /\ heartbeatItems' = heartbeatItems
              /\ counters' = counters
              /\ run' = Idle
              /\ calls' = calls (-) SetToBag({r})]_vars

\* C10 witness: a stale response that asked for counters and carried an
\* integration with a heartbeat has been dropped: the store knows neither.
C10_Witness ==
    /\ returned = [op |-> "fetchPaginatedItems", value |-> Undefined]
    /\ run = Idle
    /\ "c1" \notin DOMAIN items
    /\ DOMAIN alertReceiveChannelToHeartbeat = {}
    /\ DOMAIN counters = {}
    /\ \A r \in BagToSet(calls) : r.op # "fetchCounters"
    /\ DOMAIN paginatedSearchResult # {}

\* The step in which deleteChannelFilter(f) returns: the last block of the
\* refetch whose promise it returned (line 297).
DeleteCompletes ==
    /\ run # Idle
    /\ run.op = "fetchChannelFilters" /\ run.via = "delete"
    /\ run' = Idle

\* C13: (1) when the DELETE of deleteChannelFilter(f) has succeeded the only
\* thing the method does is to send the overwrite refetch of f's integration;
\* (2) the step in which the method completes is the last block of that
\* refetch: after it channelFilterIds[c] is the id list of the refetch
\* response, channelFilters holds exactly the filters of the response, and f
\* is in neither.
C13_DeleteCompletesAfterRefetch ==
    /\ [][\A r \in BagToSet(calls) :
              (r.pc = "ok" /\ r.op = "deleteChannelFilter" /\ Leaves(r)) =>
                  /\ Appears(FetchChannelFiltersRequest(r.c, TRUE, "delete", r.f))
                  /\ UNCHANGED <<filterVars, run>>]_vars
    /\ [][DeleteCompletes =>
              /\ run.ow
              /\ channelFilterIds'[run.c] = IdsOf(run.data)
              /\ channelFilters' = KeyById(run.data)
              /\ run.f \notin DOMAIN channelFilters'
              /\ run.f \notin Range(channelFilterIds'[run.c])]_vars

\* C13 witness: deleteChannelFilter(f1) has completed and nothing else is
\* going on: the list of c1 and channelFilters hold f2 alone, as the server.
C13_Witness ==
    /\ run = Idle /\ calls = EmptyBag
    /\ srvFilterIds["c1"] = <<"f2">>
    /\ channelFilterIds["c1"] = <<"f2">>
    /\ DOMAIN channelFilters = {"f2"}

\* What the server answers to the call the view made last.
LatestResult ==
    [count |-> Len(Matching(latestPage.query)),
     results |-> IdsOf(SrvPage(latestPage.query, latestPage.page)),
     page_size |-> PageSize]

\* Every fetchPaginatedItems call has been answered successfully and every
\* answer has reached the client and has been worked off.
AllPagesArrived ==
    /\ run = Idle
    /\ latestPage.issued
    /\ \A r \in BagToSet(calls) : r.op # "fetchPaginatedItems"

\* C11: when every call passes an invalidateFn that answers whether a newer
\* call was made, then (1) once all responses have arrived,
\* paginatedSearchResult is the count, page_size and id list of the call
\* made last, whatever the order of arrival; (2) the step that writes
\* paginatedSearchResult writes the result of the call made last; (3) once
\* paginatedSearchResult holds that result, no step changes it until a newer
\* call is made.
C11_LatestPaginatedRequestWins ==
    /\ [](AllPagesArrived => paginatedSearchResult = LatestResult)
    /\ [][(run.step = 3 /\ run.op = "fetchPaginatedItems" /\ run' = Idle) =>
              paginatedSearchResult' = LatestResult']_vars
    /\ [][(latestPage.issued /\ latestPage' = latestPage
              /\ paginatedSearchResult = LatestResult) =>
              paginatedSearchResult' = paginatedSearchResult]_vars

\* C11 witness: two calls overlapped, the response of the older one came
\* after the result of the newer one (page 2 of every integration) was
\* written, and was dropped.
C11_Witness ==
    /\ AllPagesArrived
    /\ returned = [op |-> "fetchPaginatedItems", value |-> Undefined]
    /\ latestPage.query = Integrations /\ latestPage.page = 2
    /\ paginatedSearchResult = LatestResult

\* The ids a search result lists are keys of items.
NoDanglingId(ids) == \A i \in DOMAIN ids : ids[i] \in DOMAIN items

\* C12: in every state, the states between the blocks of one response
\* included, every id of searchResult (once it is set) and of
\* paginatedSearchResult.results (once it is set) is a key of items; and
\* searchResult changes only in the last block of a fetchItems response, to
\* the ids of that response in the order the server sent them.
C12_SearchResultsNeverDangle ==
    /\ [](/\ searchResult # Undefined => NoDanglingId(searchResult)
          /\ DOMAIN paginatedSearchResult # {} =>
                 NoDanglingId(paginatedSearchResult.results))
    /\ [][searchResult' # searchResult =>
              /\ run.op = "fetchItems" /\ run.step = 3
              /\ searchResult' = IdsOf(run.data)
              /\ \E q \in Queries : searchResult' = Matching(q)
              /\ returned'.value = searchResult']_vars

\* C12 witness: between the first and the last block of a fetchItems
\* response that lists only c2, searchResult still lists c1 and c2, the page
\* lists c1, and c1 in items is what saveAlertReceiveChannel or fetchItemById
\* stored.
C12_Witness ==
    /\ run # Idle
    /\ run.op = "fetchItems" /\ run.step \in {1, 2}
    /\ IdsOf(run.data) = <<"c2">>
    /\ searchResult = <<"c1", "c2">>
    /\ DOMAIN paginatedSearchResult # {}
    /\ paginatedSearchResult.results = <<"c1">>
    /\ items["c1"].heartbeat = "h1"

----------------------------------------------------------------------------
\* Properties of GoogleConnector.

\* userStore.disconnectGoogle has run in this step.
DisconnectGoogleRan ==
    \E u \in Users : /\ userStore.items[u].has_google_oauth2_connected
                      /\ ~userStore'.items[u].has_google_oauth2_connected

----------------------------------------------------------------------------
\* Properties of the wording.

\* C5: the wording of a rendered row is 'Default' exactly for the last
\* index, otherwise 'If' exactly for index 0, otherwise 'Else'; so the list
\* has exactly one 'Default' row, the last, at most one 'If' row, and a list
\* of one route has no 'If' row.
C5_WordingByPosition ==
    route.rendered =>
        LET n == Len(route.channelFilters)
            i == route.routeIndex
            Rows(w) == {j \in 0..(n - 1) :
                           GetRouteConditionWording(route.channelFilters, j) = w}
        IN /\ (route.wording = "Default") <=> (i = n - 1)
           /\ i # n - 1 => ((route.wording = "If") <=> (i = 0))
           /\ (i # n - 1 /\ i # 0) => route.wording = "Else"
           /\ Rows("Default") = {n - 1}
           /\ Cardinality(Rows("If")) <= 1
           /\ n = 1 => Rows("If") = {}

\* C14: for a rendered row the tooltip is the default-route text exactly
\* when the wording is 'Default', that is for the last index, whatever the
\* labels are; for every other index it is the labels text exactly when
\* labels holds a label, and the routing-template text otherwise.
C14_TooltipAgreesWithWording ==
    route.rendered =>
        LET n == Len(route.channelFilters)
            i == route.routeIndex
        IN /\ (route.tooltip = DefaultRouteText) <=> (route.wording = "Default")
           /\ (route.tooltip = DefaultRouteText) <=> (i = n - 1)
           /\ i # n - 1 =>
                 /\ (route.tooltip = LabelsText) <=> HasLabels(route.labels)
                 /\ ~HasLabels(route.labels) => route.tooltip = RoutingTemplateText

\* C14 witness: the last row of a list, rendered with labels, has the
\* default-route tooltip.
C14_Witness ==
    /\ route.rendered
    /\ Len(route.channelFilters) > 1
    /\ route.routeIndex = Len(route.channelFilters) - 1
    /\ HasLabels(route.labels)
    /\ route.wording = "Default"
    /\ route.tooltip = DefaultRouteText

\* C5 witness: a row in the middle of a list of three is worded 'Else'.
C5_Witness ==
    /\ route.rendered
    /\ Len(route.channelFilters) = 3
    /\ route.routeIndex = 1
    /\ route.wording = "Else"

====
